---- MODULE Spec2Model ----
(***************************************************************************)
(* Model of feedback_plugin/data_processing/etl.py: ingestion of RawData   *)
(* rows into Server / Upload / Data / ComputedServerFact rows, and         *)
(* reconciliation of extractor output into ComputedServerFact and          *)
(* ComputedUploadFact rows, and the pivot of Data into UploadData.         *)
(*                                                                         *)
(* Tables whose rows are never deleted (ComputedServerFact, Upload, Data,  *)
(* ComputedUploadFact) are sequences: the position of a row is its         *)
(* auto-increment id.  RawData rows are deleted, so RawData is a set of    *)
(* records carrying an explicit id.                                        *)
(*                                                                         *)
(* Text is a sequence of symbols.  A symbol is a control character (TAB,   *)
(* NL, NUL), a byte that is not valid UTF-8 (BAD) or a run of ordinary     *)
(* characters; a field is the sequence of the symbols between two          *)
(* delimiters.  The texts of the catalogue contain no quote character and  *)
(* no carriage return.                                                     *)
(***************************************************************************)
EXTENDS Integers, Sequences, FiniteSets, TLC

\* ---------------------------------------------------------------- bounds
\* Number of RawData rows the endpoint inserts in one behaviour.
MaxRaw == 2
\* Number of times a call of process_raw_data is killed in one behaviour.
MaxCrash == 1

\* ------------------------------------------------------ program constants
slice_24_hours == 86400
one_second == 1

TAB == "\\t"
NL == "\\n"
NUL == "\\x00"
BAD == "\\xff"

UID_KEY == <<"FEEDBACK_SERVER_UID">>
USER_INFO_KEY == <<"FEEDBACK_USER_INFO">>
MYSQL_TEST == <<"mysql-test">>

\* ------------------------------------------------------------ input sets
\* The processes that may call process_raw_data, and the one that does when
\* the calls come one after the other.
Procs == {1, 2}
Single == {1}

Times == {10, 86409, 86410}
Countries == {"US", "DE"}

\* Blobs of well-formed uploads.
\* UploadU1: server u1, two rows.
UploadU1 == <<"FEEDBACK_SERVER_UID", TAB, "u1", NL, "OS", TAB, "Linux", NL>>

\* UploadU2: server u2.  NUL bytes, the uid key twice (the last one counts),
\* the key OS twice and once in lower case, no final newline.
UploadU2 ==
  <<NUL, "FEEDBACK_SERVER_UID", TAB, "u1", NL, "OS", TAB, "BSD", NL,
    "FEEDBACK_SERVER_UID", TAB, "u2", NUL, NL, "os", TAB, "Hurd", NL,
    "OS", TAB, "Minix">>

WellFormedBlobs == {UploadU1, UploadU2}

\* Blobs the admission tests turn down.
ThreeFields ==
  <<"FEEDBACK_SERVER_UID", TAB, "u1", NL, "OS", TAB, "Linux", TAB, "x", NL>>
BlankLine == <<"FEEDBACK_SERVER_UID", TAB, "u1", NL, NL>>
NoUid == <<"OS", TAB, "Linux", NL>>
EmptyUid == <<"FEEDBACK_SERVER_UID", TAB, NL, "OS", TAB, "Linux", NL>>
TestTraffic ==
  <<"FEEDBACK_SERVER_UID", TAB, "u2", NL, "FEEDBACK_USER_INFO", TAB, "mysql-test", NL>>
EmptyBlob == <<>>
\* A blob that is not UTF-8.
NotUtf8 == <<"FEEDBACK_SERVER_UID", TAB, "u1", NL, BAD>>

OtherBlobs ==
  {ThreeFields, BlankLine, NoUid, EmptyUid, TestTraffic, EmptyBlob, NotUtf8}

\* What the endpoint may store: (upload_time, country, data).  The country of
\* an upload that is turned down is never used, one country stands for all.
WellFormedInputs ==
  {[upload_time |-> t, country |-> c, data |-> UploadU1] :
     t \in Times, c \in Countries}
  \cup {[upload_time |-> t, country |-> "DE", data |-> UploadU2] : t \in Times}

OtherInputs ==
  {[upload_time |-> 10, country |-> "US", data |-> b] : b \in OtherBlobs}
  \cup {[upload_time |-> 86410, country |-> "US", data |-> b] :
          b \in {ThreeFields, TestTraffic}}

RawInputs == WellFormedInputs \cup OtherInputs

\* The uploads of the runs that go on to extract facts.
FactInputs ==
  { [upload_time |-> 10, country |-> "DE", data |-> UploadU1],
    [upload_time |-> 10, country |-> "DE", data |-> UploadU2],
    [upload_time |-> 86410, country |-> "DE", data |-> UploadU2] }

\* The uploads of the runs of the whole pipeline: a server whose key OS
\* repeats, and a later upload of another server.
PipelineInputs ==
  { [upload_time |-> 10, country |-> "DE", data |-> UploadU2],
    [upload_time |-> 86410, country |-> "DE", data |-> UploadU1] }

\* The upload of the runs in which calls are killed, sent again and again.
KilledInputs == {[upload_time |-> 10, country |-> "DE", data |-> UploadU1]}

\* The uploads two concurrent runs find: all of one server.
ConcurrentInputs ==
  { [upload_time |-> 10, country |-> "DE", data |-> UploadU1] }

\* ------------------------------------------------------------------ text
Last(s) == s[Len(s)]
Front(s) == SubSeq(s, 1, Len(s) - 1)

\* bytes.decode('utf-8') raises UnicodeDecodeError on an invalid byte
DecodeFails(bytes) == \E i \in 1..Len(bytes) : bytes[i] = BAD

\* str.replace('\x00', '')
StripNul(text) == SelectSeq(text, LAMBDA c : c # NUL)

\* s split at every occurrence of sep: k separators give k + 1 segments
RECURSIVE Split(_, _)
Split(s, sep) ==
  IF s = <<>> THEN << <<>> >>
  ELSE LET rest == Split(Tail(s), sep) IN
       IF Head(s) = sep THEN << <<>> >> \o rest
       ELSE << <<Head(s)>> \o Head(rest) >> \o Tail(rest)

\* the lines csv.reader reads from the StringIO: a final newline ends the
\* last line, it does not start another one
Lines(text) ==
  LET segs == Split(text, NL) IN
  IF Last(segs) = <<>> THEN Front(segs) ELSE segs

\* one row of csv.reader(delimiter='\t'): a blank line is the row []
Row(line) ==
  IF line = <<>> THEN <<>>
  ELSE Split(line, TAB)

Reader(text) == LET ls == Lines(text) IN [i \in 1..Len(ls) |-> Row(ls[i])]

\* data[row[0]] = row[1]
DictSet(d, k, v) == [x \in DOMAIN d \cup {k} |-> IF x = k THEN v ELSE d[x]]

EmptyDict == [x \in {} |-> <<>>]

\* mutant: a row that is not a pair is skipped and the loop goes on
RECURSIVE ParseFromSkipping(_, _, _)
ParseFromSkipping(rows, i, acc) ==
  IF i > Len(rows) THEN acc
  ELSE IF Len(rows[i]) # 2 THEN ParseFromSkipping(rows, i + 1, acc)
  ELSE ParseFromSkipping(rows, i + 1,
         [errored |-> FALSE,
          data |-> DictSet(acc.data, rows[i][1], rows[i][2]),
          values |-> Append(acc.values, [key |-> rows[i][1], value |-> rows[i][2]])])

\* The loop over the rows: stops at the first row that is not a pair.
RECURSIVE ParseFrom(_, _, _)
ParseFrom(rows, i, acc) ==
  IF i > Len(rows) THEN acc
  ELSE IF Len(rows[i]) # 2 THEN [acc EXCEPT !.errored = TRUE]
  ELSE ParseFrom(rows, i + 1,
         [errored |-> FALSE,
          data |-> DictSet(acc.data, rows[i][1], rows[i][2]),
          values |-> Append(acc.values, [key |-> rows[i][1], value |-> rows[i][2]])])

ParseRows(rows) ==
  ParseFrom(rows, 1, [errored |-> FALSE, data |-> EmptyDict, values |-> <<>>])

Parse(bytes) == ParseRows(Reader(StripNul(bytes)))

\* the three admission tests
MissingUid(data) == UID_KEY \notin DOMAIN data \/ Len(data[UID_KEY]) = 0

IsTestUpload(data) ==
  USER_INFO_KEY \in DOMAIN data /\ data[USER_INFO_KEY] = MYSQL_TEST

Rejected(parsed) ==
  parsed.errored \/ MissingUid(parsed.data) \/ IsTestUpload(parsed.data)

\* ----------------------------------------------------------------- state
VARIABLES
  RawData,             \* table RawData: set of [id, upload_time, country, data]
  Server,              \* table Server: set of ids
  ComputedServerFact,  \* table: sequence of [server, key, value]
  Upload,              \* table: sequence of [upload_time, server]
  Data,                \* table: sequence of [upload, key, value]
  ComputedUploadFact,  \* table: sequence of [upload, key, value]
  UploadData,          \* table: sequence of [upload, upload_json]
  run,                 \* per process: position and locals of process_raw_data
  arrived,             \* history: every RawData row ever inserted
  lastRun,             \* history: how the latest process_raw_data call ended
  backlog,             \* history: RawData when the latest call started
  startFacts,          \* history: ComputedServerFact when it started
  iterStore,           \* history: the store when the current iteration started
  crashes              \* history: number of calls that were killed

store == <<Server, ComputedServerFact, Upload, Data, ComputedUploadFact,
           UploadData>>
hist == <<arrived, lastRun, backlog, startFacts, iterStore, crashes>>
vars == <<RawData, Server, ComputedServerFact, Upload, Data,
          ComputedUploadFact, UploadData, run, arrived, lastRun, backlog,
          startFacts,
          iterStore, crashes>>

NoStore == <<{}, <<>>, <<>>, <<>>, <<>>, <<>>>>

NoRaw == [id |-> 0, upload_time |-> 0, country |-> "", data |-> <<>>]

IdleRun ==
  [pc |-> "idle", start_date |-> 0, end_date |-> 0, local_end_date |-> 0,
   iter |-> <<>>, raw_upload |-> NoRaw, uid |-> <<>>, values |-> <<>>,
   server |-> 0, updates |-> <<>>, upload |-> 0]

AllIdle == \A p \in Procs : run[p].pc = "idle"

\* str(datetime) as stored in the value column
TimeValue(t) == <<ToString(t)>>

Init ==
  /\ RawData = {}
  /\ Server = {}
  /\ ComputedServerFact = <<>>
  /\ Upload = <<>>
  /\ Data = <<>>
  /\ ComputedUploadFact = <<>>
  /\ UploadData = <<>>
  /\ run = [p \in Procs |-> IdleRun]
  /\ arrived = {}
  /\ lastRun = "none"
  /\ backlog = {}
  /\ startFacts = <<>>
  /\ iterStore = NoStore
  /\ crashes = 0

\* ------------------------------------------------------- the upload endpoint
\* The endpoint (outside etl.py) stores one RawData row.  Rows arrive between
\* two calls of process_raw_data.
InsertRaw(inputs) ==
  /\ AllIdle
  /\ Cardinality(arrived) < MaxRaw
  /\ \E x \in inputs :
       LET r == [id |-> Cardinality(arrived) + 1, upload_time |-> x.upload_time,
                 country |-> x.country, data |-> x.data] IN
       /\ RawData' = RawData \cup {r}
       /\ arrived' = arrived \cup {r}
  /\ lastRun' = "none"
  /\ backlog' = {}
  /\ startFacts' = <<>>
  /\ UNCHANGED <<store, run, iterStore, crashes>>

\* ------------------------------------------------------------ queries
SetMin(S) == CHOOSE x \in S : \A y \in S : x <= y
SetMax(S) == CHOOSE x \in S : \A y \in S : x >= y

UploadTimes(rows) == {r.upload_time : r \in rows}

\* mutant: the filter is upload_time__gte, upload_time__lt
RawFilterGteLt(rows, start_date, end_date) ==
  {r \in rows : r.upload_time >= start_date /\ r.upload_time < end_date}

\* RawData.objects.filter(upload_time__gt=, upload_time__lte=)
RawFilter(rows, start_date, end_date) ==
  {r \in rows : r.upload_time > start_date /\ r.upload_time <= end_date}

\* .order_by('upload_time'): every order of the rows that ascends in
\* upload_time (rows with equal upload_time come in an order the database
\* chooses)
OrderByUploadTime(rows) ==
  {s \in [1..Cardinality(rows) -> rows] :
     /\ \A i, j \in DOMAIN s : i # j => s[i] # s[j]
     /\ \A i, j \in DOMAIN s : i < j => s[i].upload_time <= s[j].upload_time}

\* mutant: the lookup compares the value column with the key
FactsByKeyValueSwapped(facts, key, value) ==
  {i \in DOMAIN facts : facts[i].key = key /\ facts[i].value = <<key>>}

\* ComputedServerFact.objects.filter(key=, value=): the ids
FactsByKeyValue(facts, key, value) ==
  {i \in DOMAIN facts : facts[i].key = key /\ facts[i].value = value}

\* ComputedServerFact.objects.filter(key=, server=): the ids
FactsByKeyServer(facts, key, server) ==
  {i \in DOMAIN facts : facts[i].key = key /\ facts[i].server = server}

TheOne(S) == CHOOSE x \in S : TRUE

\* ------------------------------------------------------- process_raw_data
\* An exception leaves process_raw_data: the call is over.
Raise(p) ==
  /\ run' = [run EXCEPT ![p] = IdleRun]
  /\ lastRun' = "raised"
  /\ iterStore' = NoStore
  /\ UNCHANGED <<arrived, backlog, startFacts, crashes>>

\* process_raw_data up to the while loop
StartRun(p) ==
  /\ run[p].pc = "idle"
  /\ IF RawData = {}
     THEN \* Nothing to do
          /\ lastRun' = "nothing"
          /\ UNCHANGED <<run, backlog, startFacts>>
     ELSE /\ run' = [run EXCEPT ![p] =
                 [IdleRun EXCEPT
                    !.pc = "loop",
                    !.start_date = SetMin(UploadTimes(RawData)) - one_second,
                    !.end_date = SetMax(UploadTimes(RawData))]]
          /\ lastRun' = "running"
          /\ backlog' = RawData
          /\ startFacts' = ComputedServerFact
  /\ UNCHANGED <<RawData, store, arrived, iterStore, crashes>>

\* the test of the while loop, and the query process_from_date starts with
Window(p) ==
  /\ run[p].pc = "loop"
  /\ IF run[p].start_date <= run[p].end_date
     THEN LET local_end_date == run[p].start_date + slice_24_hours IN
          /\ \E it \in OrderByUploadTime(
                         RawFilter(RawData, run[p].start_date, local_end_date)) :
               run' = [run EXCEPT ![p].pc = "iter",
                                  ![p].local_end_date = local_end_date,
                                  ![p].iter = it]
          /\ UNCHANGED lastRun
     ELSE /\ run' = [run EXCEPT ![p] = IdleRun]
          /\ lastRun' = "completed"
  /\ UNCHANGED <<RawData, store, arrived, backlog, startFacts, iterStore, crashes>>

\* process_from_date returns: start_date = local_end_date
WindowDone(p) ==
  /\ run[p].pc = "iter"
  /\ run[p].iter = <<>>
  /\ run' = [run EXCEPT ![p].pc = "loop",
                        ![p].start_date = run[p].local_end_date]
  /\ UNCHANGED <<RawData, store, hist>>

\* mutant: the delete is forgotten
DeleteRawForgotten(rows, r) == rows

\* raw_upload.delete()
DeleteRaw(rows, r) == rows \ {r}

\* One raw upload from the iterator, up to its first storage write: decoding,
\* parsing, the admission tests and, for an accepted upload, the lookup of
\* the server.
Admit(p) ==
  /\ run[p].pc = "iter"
  /\ run[p].iter # <<>>
  /\ LET raw_upload == Head(run[p].iter)
         rest == Tail(run[p].iter)
     IN
     IF DecodeFails(raw_upload.data)
     THEN Raise(p) /\ UNCHANGED RawData
     ELSE
       LET parsed == Parse(raw_upload.data) IN
       IF Rejected(parsed)
       THEN /\ RawData' = DeleteRaw(RawData, raw_upload)
            /\ run' = [run EXCEPT ![p].iter = rest]
            /\ UNCHANGED hist
       ELSE
         LET uid == parsed.data[UID_KEY]
             found == FactsByKeyValue(ComputedServerFact, "uid", uid)
             next == [run[p] EXCEPT !.iter = rest, !.raw_upload = raw_upload,
                                    !.uid = uid, !.values = parsed.values]
         IN
         /\ UNCHANGED RawData
         /\ IF found = {}
            THEN \* ComputedServerFact.DoesNotExist
                 /\ run' = [run EXCEPT ![p] = [next EXCEPT !.pc = "server"]]
                 /\ iterStore' = store
                 /\ UNCHANGED <<arrived, lastRun, backlog, startFacts, crashes>>
            ELSE IF Cardinality(found) > 1
            THEN \* MultipleObjectsReturned
                 Raise(p)
            ELSE IF ComputedServerFact[TheOne(found)].server \notin Server
            THEN \* Server.DoesNotExist: assert False
                 Raise(p)
            ELSE /\ run' = [run EXCEPT ![p] =
                        [next EXCEPT !.pc = "facts",
                           !.server = ComputedServerFact[TheOne(found)].server]]
                 /\ iterStore' = store
                 /\ UNCHANGED <<arrived, lastRun, backlog, startFacts, crashes>>
  /\ UNCHANGED store

\* the id an insert into a table gives its row
NewServerId(servers) == IF servers = {} THEN 1 ELSE SetMax(servers) + 1

\* mutant: the Server row is not written
SaveServerForgotten(p) ==
  /\ run[p].pc = "server"
  /\ run' = [run EXCEPT ![p].pc = "uid", ![p].server = NewServerId(Server)]
  /\ UNCHANGED <<RawData, store, hist>>

\* server.save()
SaveServer(p) ==
  /\ run[p].pc = "server"
  /\ Server' = Server \cup {NewServerId(Server)}
  /\ run' = [run EXCEPT ![p].pc = "uid", ![p].server = NewServerId(Server)]
  /\ UNCHANGED <<RawData, ComputedServerFact, Upload, Data,
                 ComputedUploadFact, UploadData, hist>>

\* srv_uid_fact.save()
SaveUidFact(p) ==
  /\ run[p].pc = "uid"
  /\ ComputedServerFact' = Append(ComputedServerFact,
        [server |-> run[p].server, key |-> "uid", value |-> run[p].uid])
  /\ run' = [run EXCEPT ![p].pc = "facts"]
  /\ UNCHANGED <<RawData, Server, Upload, Data, ComputedUploadFact,
                 UploadData, hist>>

\* get_fact_by_key: (True, new row) or (False, id of the row, new value)
get_fact_by_key(facts, key, server, value) ==
  LET found == FactsByKeyServer(facts, key, server) IN
  IF found = {}
  THEN [create |-> TRUE, id |-> 0, key |-> key, value |-> value]
  ELSE [create |-> FALSE, id |-> TheOne(found), key |-> key, value |-> value]

\* mutant: first_seen is updated like the other two
SrvFactsOverwriting(facts, server, country_code, raw_upload_time) ==
  << get_fact_by_key(facts, "country_code", server, <<country_code>>),
     get_fact_by_key(facts, "last_seen", server, TimeValue(raw_upload_time)),
     get_fact_by_key(facts, "first_seen", server, TimeValue(raw_upload_time)) >>

\* the three candidates, first_seen dropped when its row exists
SrvFacts(facts, server, country_code, raw_upload_time) ==
  LET three ==
        << get_fact_by_key(facts, "country_code", server, <<country_code>>),
           get_fact_by_key(facts, "last_seen", server, TimeValue(raw_upload_time)),
           get_fact_by_key(facts, "first_seen", server, TimeValue(raw_upload_time)) >>
  IN IF Last(three).create = FALSE THEN Front(three) ELSE three

FactRows(srv_facts, server) ==
  [i \in 1..Len(srv_facts) |->
     [server |-> server, key |-> srv_facts[i].key, value |-> srv_facts[i].value]]

\* bulk_update(rows, ['value'])
BulkUpdate(facts, updates) ==
  [i \in DOMAIN facts |->
     IF \E j \in DOMAIN updates : updates[j].id = i
     THEN [facts[i] EXCEPT !.value =
             updates[SetMax({j \in DOMAIN updates : updates[j].id = i})].value]
     ELSE facts[i]]

\* the lookups of the three server facts and bulk_create of the new ones
CreateFacts(p) ==
  /\ run[p].pc = "facts"
  /\ LET server == run[p].server
         r == run[p].raw_upload
     IN
     IF \E k \in {"country_code", "last_seen", "first_seen"} :
          Cardinality(FactsByKeyServer(ComputedServerFact, k, server)) > 1
     THEN \* MultipleObjectsReturned
          Raise(p) /\ UNCHANGED ComputedServerFact
     ELSE
       LET srv_facts == SrvFacts(ComputedServerFact, server, r.country,
                                 r.upload_time)
           srv_facts_create == SelectSeq(srv_facts, LAMBDA x : x.create)
           srv_facts_update == SelectSeq(srv_facts, LAMBDA x : ~x.create)
       IN
       /\ ComputedServerFact' =
            ComputedServerFact \o FactRows(srv_facts_create, server)
       /\ run' = [run EXCEPT ![p].pc = "update", ![p].updates = srv_facts_update]
       /\ UNCHANGED hist
  /\ UNCHANGED <<RawData, Server, Upload, Data, ComputedUploadFact, UploadData>>

\* bulk_update of the server facts that existed
UpdateFacts(p) ==
  /\ run[p].pc = "update"
  /\ ComputedServerFact' = BulkUpdate(ComputedServerFact, run[p].updates)
  /\ run' = [run EXCEPT ![p].pc = "upload", ![p].updates = <<>>]
  /\ UNCHANGED <<RawData, Server, Upload, Data, ComputedUploadFact,
                 UploadData, hist>>

\* upload.save()
SaveUpload(p) ==
  /\ run[p].pc = "upload"
  /\ Upload' = Append(Upload, [upload_time |-> run[p].raw_upload.upload_time,
                               server |-> run[p].server])
  /\ run' = [run EXCEPT ![p].pc = "data", ![p].upload = Len(Upload) + 1]
  /\ UNCHANGED <<RawData, Server, ComputedServerFact, Data,
                 ComputedUploadFact, UploadData, hist>>

\* mutant: the rows are made from the dict, one per distinct key
DataRowsFromDict(values, upload) ==
  LET keep == SelectSeq([i \in 1..Len(values) |-> [i |-> i, v |-> values[i]]],
                        LAMBDA x : \A j \in 1..Len(values) :
                                     j > x.i => values[j].key # x.v.key)
  IN [i \in 1..Len(keep) |->
        [upload |-> upload, key |-> keep[i].v.key, value |-> keep[i].v.value]]

\* the Data rows of the upload: value.upload = upload
DataRows(values, upload) ==
  [i \in 1..Len(values) |->
     [upload |-> upload, key |-> values[i].key, value |-> values[i].value]]

\* Data.objects.bulk_create(values)
SaveData(p) ==
  /\ run[p].pc = "data"
  /\ Data' = Data \o DataRows(run[p].values, run[p].upload)
  /\ run' = [run EXCEPT ![p].pc = "delete"]
  /\ UNCHANGED <<RawData, Server, ComputedServerFact, Upload,
                 ComputedUploadFact, UploadData, hist>>

\* raw_upload.delete() of an accepted upload, end of the iteration
DeleteAccepted(p) ==
  /\ run[p].pc = "delete"
  /\ RawData' = DeleteRaw(RawData, run[p].raw_upload)
  /\ run' = [run EXCEPT ![p].pc = "iter", ![p].raw_upload = NoRaw,
                        ![p].uid = <<>>, ![p].values = <<>>,
                        ![p].server = 0, ![p].upload = 0]
  /\ iterStore' = NoStore
  /\ UNCHANGED <<store, arrived, lastRun, backlog, startFacts, crashes>>

\* The process dies between two storage writes; nothing is rolled back (the
\* module opens no transaction).
Crash(p) ==
  /\ run[p].pc # "idle"
  /\ crashes < MaxCrash
  /\ crashes' = crashes + 1
  /\ run' = [run EXCEPT ![p] = IdleRun]
  /\ lastRun' = "crashed"
  /\ iterStore' = NoStore
  /\ UNCHANGED <<RawData, store, arrived, backlog, startFacts>>

\* ------------------------------------------------- the extraction query
\* str.lower() / iexact on the symbols that occur in keys
LowerSym(c) ==
  CASE c = "OS" -> "os"
    [] c = "Os" -> "os"
    [] c = "FEEDBACK_SERVER_UID" -> "feedback_server_uid"
    [] c = "FEEDBACK_USER_INFO" -> "feedback_user_info"
    [] OTHER -> c

Lower(field) == [i \in DOMAIN field |-> LowerSym(field[i])]

\* the union of the extractors' required keys
RequiredKeys(data_extractors) ==
  UNION {data_extractors[i].required : i \in DOMAIN data_extractors}

\* key_filter: the disjunction of key__iexact over the keys; Q() when there
\* is no key, and Q() filters nothing
KeyFilter(keys, key) ==
  keys = {} \/ \E k \in keys : Lower(k) = Lower(key)

\* mutant: the start of the range is open
DateFilterGt(start_date, end_date, end_inclusive, t) ==
  /\ t > start_date
  /\ IF end_inclusive THEN t <= end_date ELSE t < end_date

\* date_filter
DateFilter(start_date, end_date, end_inclusive, t) ==
  /\ t >= start_date
  /\ IF end_inclusive THEN t <= end_date ELSE t < end_date

\* ids of the rows of Data.objects.filter(date_filter & key_filter)
DataToProcess(uploads, data, start_date, end_date, keys, end_inclusive) ==
  {i \in DOMAIN data :
     /\ DateFilter(start_date, end_date, end_inclusive,
                   uploads[data[i].upload].upload_time)
     /\ KeyFilter(keys, data[i].key)}

\* the values appended to servers[server_id][upload_id][key], the rows taken
\* in the order of their ids
ValuesOf(data, ids, upload, key) ==
  LET sel == SelectSeq([i \in DOMAIN data |-> i],
                       LAMBDA i : /\ i \in ids
                                  /\ data[i].upload = upload
                                  /\ Lower(data[i].key) = key)
  IN [j \in DOMAIN sel |-> data[sel[j]].value]

\* servers: server id -> upload id -> lower-case key -> list of values
get_upload_data_for_data_extractors(uploads, data, start_date, end_date, data_extractors, end_inclusive) ==
  LET ids == DataToProcess(uploads, data, start_date, end_date,
                           RequiredKeys(data_extractors), end_inclusive)
      ups == {data[i].upload : i \in ids}
  IN [s \in {uploads[u].server : u \in ups} |->
        [u \in {x \in ups : uploads[x].server = s} |->
           [k \in {Lower(data[i].key) : i \in {j \in ids : data[j].upload = u}} |->
              ValuesOf(data, ids, u, k)]]]

\* ------------------------------------------------------------ extractors
\* The module extractors is not part of the source at hand.  An extractor
\* here declares the keys it requires, reads the values of one lower-case key
\* and emits one fact: the first or the last of these values.
OsFirst == [required |-> {<<"OS">>}, key |-> <<"os">>, out |-> "os_name",
            last |-> FALSE]
OsLast == [required |-> {<<"Os">>}, key |-> <<"os">>, out |-> "os_name",
           last |-> TRUE]
OsSeen == [required |-> {<<"os">>}, key |-> <<"os">>, out |-> "os_seen",
           last |-> TRUE]

\* the lists of extractors a call is given
ExtractorLists == {<<OsFirst>>, <<OsFirst, OsSeen, OsLast>>}

\* the start and end dates a call is given
RangeDates == {10, 86410}

\* the calls of extract_server_facts / extract_upload_facts the model makes
Calls ==
  {c \in [start_date : RangeDates, end_date : RangeDates,
          end_inclusive : BOOLEAN, data_extractors : ExtractorLists] :
     c.start_date <= c.end_date}

\* the same calls, and those that are given no extractor
QueryCalls ==
  Calls \cup
  {c \in [start_date : RangeDates, end_date : RangeDates,
          end_inclusive : BOOLEAN, data_extractors : {<<>>}] :
     c.start_date <= c.end_date}

\* the call of the runs in which calls are killed: every upload, three
\* extractors
KilledCalls ==
  { [start_date |-> 10, end_date |-> 86410, end_inclusive |-> TRUE,
     data_extractors |-> <<OsFirst, OsSeen, OsLast>>] }

\* the calls of the whole pipeline: every upload with three extractors, the
\* uploads before the last date with one of them
PipelineCalls ==
  { [start_date |-> 10, end_date |-> 86410, end_inclusive |-> TRUE,
     data_extractors |-> <<OsFirst, OsSeen, OsLast>>],
    [start_date |-> 10, end_date |-> 86410, end_inclusive |-> FALSE,
     data_extractors |-> <<OsFirst>>] }

Pick(e, values) == IF e.last THEN Last(values) ELSE Head(values)

\* ServerFactExtractor.extract_facts: server -> key -> value, from the
\* latest upload of the server that has the key
ServerExtractFacts(e, servers) ==
  [s \in {x \in DOMAIN servers :
            \E u \in DOMAIN servers[x] : e.key \in DOMAIN servers[x][u]} |->
     [k \in {e.out} |->
        Pick(e, servers[s][SetMax({u \in DOMAIN servers[s] :
                                     e.key \in DOMAIN servers[s][u]})][e.key])]]

\* UploadFactExtractor.extract_facts: server -> upload -> key -> value
UploadExtractFacts(e, servers) ==
  [s \in {x \in DOMAIN servers :
            \E u \in DOMAIN servers[x] : e.key \in DOMAIN servers[x][u]} |->
     [u \in {x \in DOMAIN servers[s] : e.key \in DOMAIN servers[s][x]} |->
        [k \in {e.out} |-> Pick(e, servers[s][u][e.key])]]]

\* a dict updated with another: the later writer wins
DictUpdate(a, b) ==
  [k \in DOMAIN a \cup DOMAIN b |-> IF k \in DOMAIN b THEN b[k] ELSE a[k]]

\* the same, one level down
DictUpdate2(a, b) ==
  [s \in DOMAIN a \cup DOMAIN b |->
     IF s \in DOMAIN a /\ s \in DOMAIN b THEN DictUpdate(a[s], b[s])
     ELSE IF s \in DOMAIN b THEN b[s] ELSE a[s]]

\* and two levels down
DictUpdate3(a, b) ==
  [s \in DOMAIN a \cup DOMAIN b |->
     IF s \in DOMAIN a /\ s \in DOMAIN b THEN DictUpdate2(a[s], b[s])
     ELSE IF s \in DOMAIN b THEN b[s] ELSE a[s]]

NoFacts == [s \in {} |-> <<>>]

RECURSIVE combine_server_facts(_)
combine_server_facts(outputs) ==
  IF outputs = <<>> THEN NoFacts
  ELSE DictUpdate2(combine_server_facts(Front(outputs)), Last(outputs))

RECURSIVE combine_upload_facts(_)
combine_upload_facts(outputs) ==
  IF outputs = <<>> THEN NoFacts
  ELSE DictUpdate3(combine_upload_facts(Front(outputs)), Last(outputs))

\* -------------------------------------------------- extract_server_facts
\* the elements of a set of numbers, ascending
RECURSIVE Ascending(_)
Ascending(S) ==
  IF S = {} THEN <<>> ELSE <<SetMin(S)>> \o Ascending(S \ {SetMin(S)})

\* the elements of a set of keys, in the order the dict holds them
RECURSIVE KeyOrder(_)
KeyOrder(S) ==
  IF S = {} THEN <<>>
  ELSE LET k == CHOOSE x \in S : TRUE IN <<k>> \o KeyOrder(S \ {k})

\* facts_by_key: key -> server -> value
FactsByKey(facts) ==
  [k \in UNION {DOMAIN facts[s] : s \in DOMAIN facts} |->
     [s \in {x \in DOMAIN facts : k \in DOMAIN facts[x]} |-> facts[s][k]]]

\* mutant: the query leaves out key=key
FactsAlreadyInDbAnyKey(table, key, servers_with_computed_fact) ==
  {i \in DOMAIN table : table[i].server \in servers_with_computed_fact}

\* facts_already_in_db: ids of the rows of the key for these servers
FactsAlreadyInDb(table, key, servers_with_computed_fact) ==
  {i \in DOMAIN table :
     /\ table[i].server \in servers_with_computed_fact
     /\ table[i].key = key}

\* mutant: every fact is inserted, none is looked up
ServerWritesInsertOnly(table, key, by_server) ==
  LET to_create == Ascending(DOMAIN by_server)
  IN [facts_create |-> [j \in DOMAIN to_create |->
                         [server |-> to_create[j], key |-> key,
                          value |-> by_server[to_create[j]]]],
      facts_update |-> <<>>]

\* one turn of the loop over the keys: the lists facts_create and
\* facts_update
ServerWrites(table, key, by_server) ==
  LET in_db == FactsAlreadyInDb(table, key, DOMAIN by_server)
      \* facts_in_db_by_s_id: a later row of a server replaces an earlier one
      known == {table[i].server : i \in in_db}
      row_of(s) == SetMax({i \in in_db : table[i].server = s})
      to_create == Ascending(DOMAIN by_server \ known)
      to_update == Ascending(known)
  IN [facts_create |-> [j \in DOMAIN to_create |->
                         [server |-> to_create[j], key |-> key,
                          value |-> by_server[to_create[j]]]],
      facts_update |-> [j \in DOMAIN to_update |->
                         [id |-> row_of(to_update[j]),
                          value |-> by_server[to_update[j]]]]]

\* bulk_create, then bulk_update
ReconcileKey(table, key, by_server) ==
  LET w == ServerWrites(table, key, by_server)
  IN BulkUpdate(table \o w.facts_create, w.facts_update)

\* the lists of every turn of the loop over the keys
RECURSIVE ServerRunWrites(_, _, _)
ServerRunWrites(table, keys, facts_by_key) ==
  IF keys = <<>> THEN <<>>
  ELSE <<ServerWrites(table, Head(keys), facts_by_key[Head(keys)])>>
       \o ServerRunWrites(
            ReconcileKey(table, Head(keys), facts_by_key[Head(keys)]),
            Tail(keys), facts_by_key)

RECURSIVE ReconcileKeys(_, _, _)
ReconcileKeys(table, keys, facts_by_key) ==
  IF keys = <<>> THEN table
  ELSE ReconcileKeys(ReconcileKey(table, Head(keys), facts_by_key[Head(keys)]),
                     Tail(keys), facts_by_key)

\* the combined output of the server extractors
ServerFacts(uploads, data, start_date, end_date, data_extractors, end_inclusive) ==
  LET servers == get_upload_data_for_data_extractors(
                   uploads, data, start_date, end_date, data_extractors,
                   end_inclusive)
  IN combine_server_facts(
       [i \in DOMAIN data_extractors |->
          ServerExtractFacts(data_extractors[i], servers)])

\* extract_server_facts, called while no ingestion run is under way
extract_server_facts(c) ==
  /\ AllIdle
  /\ LET facts == ServerFacts(Upload, Data, c.start_date, c.end_date,
                              c.data_extractors, c.end_inclusive)
         facts_by_key == FactsByKey(facts)
     IN ComputedServerFact' =
          ReconcileKeys(ComputedServerFact,
                        KeyOrder(DOMAIN facts_by_key), facts_by_key)
  /\ UNCHANGED <<RawData, Server, Upload, Data, ComputedUploadFact,
                 UploadData, run,
                 arrived, lastRun, backlog, startFacts, iterStore, crashes>>

\* extract_server_facts is killed between two writes: after the turns of
\* the first n keys, and either before the bulk_create of the next key or
\* between its bulk_create and its bulk_update
extract_server_facts_killed(c) ==
  /\ AllIdle
  /\ crashes < MaxCrash
  /\ crashes' = crashes + 1
  /\ LET facts_by_key == FactsByKey(
                           ServerFacts(Upload, Data, c.start_date, c.end_date,
                                       c.data_extractors, c.end_inclusive))
         keys == KeyOrder(DOMAIN facts_by_key)
     IN \E n \in 0..(Len(keys) - 1), created \in BOOLEAN :
          LET done == ReconcileKeys(ComputedServerFact, SubSeq(keys, 1, n),
                                    facts_by_key)
              w == ServerWrites(done, keys[n + 1], facts_by_key[keys[n + 1]])
          IN ComputedServerFact' =
               IF created THEN done \o w.facts_create ELSE done
  /\ UNCHANGED <<RawData, Server, Upload, Data, ComputedUploadFact,
                 UploadData, run, arrived, lastRun, backlog, startFacts,
                 iterStore>>

\* the stages run one after the other: extraction after the backlog is
\* consumed
ExtractServerFacts(calls) ==
  RawData = {} /\ \E c \in calls : extract_server_facts(c)

\* -------------------------------------------------- extract_upload_facts
\* mutant: the lookup finds nothing
UploadFactsByKeyUploadNone(table, key, upload_id) == {}

\* ComputedUploadFact.objects.filter(key=, upload_id=): the ids
UploadFactsByKeyUpload(table, key, upload_id) ==
  {i \in DOMAIN table : table[i].key = key /\ table[i].upload = upload_id}

\* the (server, upload, key) triples in the order of the three loops
UploadFactTriples(facts) ==
  LET servers == Ascending(DOMAIN facts)
      of_upload(s, u) ==
        LET ks == KeyOrder(DOMAIN facts[s][u]) IN
        [j \in DOMAIN ks |->
           [server |-> s, upload |-> u, key |-> ks[j], value |-> facts[s][u][ks[j]]]]
      of_server(s) ==
        LET uploads == Ascending(DOMAIN facts[s])
            F[n \in 0..Len(uploads)] ==
              IF n = 0 THEN <<>> ELSE F[n - 1] \o of_upload(s, uploads[n])
        IN F[Len(uploads)]
      G[n \in 0..Len(servers)] ==
        IF n = 0 THEN <<>> ELSE G[n - 1] \o of_server(servers[n])
  IN G[Len(servers)]

\* the combined output of the upload extractors
UploadFacts(uploads, data, start_date, end_date, data_extractors, end_inclusive) ==
  LET servers == get_upload_data_for_data_extractors(
                   uploads, data, start_date, end_date, data_extractors,
                   end_inclusive)
  IN combine_upload_facts(
       [i \in DOMAIN data_extractors |->
          UploadExtractFacts(data_extractors[i], servers)])

\* the lists facts_create and facts_update the three loops collect
UploadWrites(table, facts) ==
  LET triples == UploadFactTriples(facts)
      found(t) == UploadFactsByKeyUpload(table, t.key, t.upload)
      new == SelectSeq(triples, LAMBDA t : found(t) = {})
      old == SelectSeq(triples, LAMBDA t : found(t) # {})
  IN [facts_create |-> [j \in DOMAIN new |->
                         [upload |-> new[j].upload, key |-> new[j].key,
                          value |-> new[j].value]],
      facts_update |-> [j \in DOMAIN old |->
                         [id |-> TheOne(found(old[j])), value |-> old[j].value]]]

\* the table after the loops, bulk_create and bulk_update; the table as it
\* is when check_if_upload_fact_exists raises MultipleObjectsReturned
ReconcileUploadFacts(table, facts) ==
  LET triples == UploadFactTriples(facts)
      w == UploadWrites(table, facts)
  IN IF \E j \in DOMAIN triples :
          Cardinality(UploadFactsByKeyUpload(table, triples[j].key,
                                             triples[j].upload)) > 1
     THEN table
     ELSE BulkUpdate(table \o w.facts_create, w.facts_update)

\* extract_upload_facts, called while no ingestion run is under way
extract_upload_facts(c) ==
  /\ AllIdle
  /\ LET facts == UploadFacts(Upload, Data, c.start_date, c.end_date,
                              c.data_extractors, c.end_inclusive)
     IN ComputedUploadFact' = ReconcileUploadFacts(ComputedUploadFact, facts)
  /\ UNCHANGED <<RawData, Server, ComputedServerFact, Upload, Data,
                 UploadData, run,
                 arrived, lastRun, backlog, startFacts, iterStore, crashes>>

\* extract_upload_facts is killed between bulk_create and bulk_update
extract_upload_facts_killed(c) ==
  /\ AllIdle
  /\ crashes < MaxCrash
  /\ crashes' = crashes + 1
  /\ LET facts == UploadFacts(Upload, Data, c.start_date, c.end_date,
                              c.data_extractors, c.end_inclusive)
     IN ComputedUploadFact' =
          ComputedUploadFact \o UploadWrites(ComputedUploadFact, facts).facts_create
  /\ UNCHANGED <<RawData, Server, ComputedServerFact, Upload, Data,
                 UploadData, run, arrived, lastRun, backlog, startFacts,
                 iterStore>>

ExtractUploadFacts(calls) ==
  RawData = {} /\ \E c \in calls : extract_upload_facts(c)

\* ------------------------------------------------------------- pivot_data
\* Data.objects.values('upload_id', 'key', 'value') has no order_by: the rows
\* come as the scan of the table gives them, in the order of their ids.
\* pivot_map: upload id -> key -> value, a later row replaces an earlier one
PivotMap(data) ==
  [u \in {data[i].upload : i \in DOMAIN data} |->
     [k \in {data[i].key : i \in {j \in DOMAIN data : data[j].upload = u}} |->
        data[SetMax({i \in DOMAIN data :
                       data[i].upload = u /\ data[i].key = k})].value]]

\* pivot_map.items(): the uploads in the order the scan first meets them
RECURSIVE PivotOrder(_, _)
PivotOrder(data, seen) ==
  IF data = <<>> THEN <<>>
  ELSE IF Head(data).upload \in seen THEN PivotOrder(Tail(data), seen)
  ELSE <<Head(data).upload>>
       \o PivotOrder(Tail(data), seen \cup {Head(data).upload})

\* UploadData.objects.filter(upload_id=): the ids
UploadDataByUpload(table, upload_id) ==
  {i \in DOMAIN table : table[i].upload = upload_id}

\* mutant: create instead of update_or_create
UpdateOrCreateCreating(table, upload_id, upload_json) ==
  Append(table, [upload |-> upload_id, upload_json |-> upload_json])

\* update_or_create(upload_id=, defaults={'upload_json': data})
UpdateOrCreate(table, upload_id, upload_json) ==
  LET found == UploadDataByUpload(table, upload_id) IN
  IF found = {}
  THEN Append(table, [upload |-> upload_id, upload_json |-> upload_json])
  ELSE [table EXCEPT ![TheOne(found)].upload_json = upload_json]

\* the first n turns of the loop over pivot_map.items(); the loop ends when
\* update_or_create raises MultipleObjectsReturned
RECURSIVE PivotUpserts(_, _, _, _)
PivotUpserts(table, order, pivot_map, n) ==
  IF n = 0 THEN table
  ELSE LET before == PivotUpserts(table, order, pivot_map, n - 1) IN
       IF \E j \in 1..n :
            Cardinality(UploadDataByUpload(before, order[j])) > 1
       THEN before
       ELSE UpdateOrCreate(before, order[n], pivot_map[order[n]])

\* the table after pivot_data
Pivoted(table, data) ==
  PivotUpserts(table, PivotOrder(data, {}), PivotMap(data),
               Len(PivotOrder(data, {})))

\* pivot_data, called while no ingestion run is under way
pivot_data ==
  /\ AllIdle
  /\ UploadData' = Pivoted(UploadData, Data)
  /\ UNCHANGED <<RawData, Server, ComputedServerFact, Upload, Data,
                 ComputedUploadFact, run, hist>>

PivotData == RawData = {} /\ pivot_data

\* pivot_data is killed between two turns of its second loop
pivot_data_killed ==
  /\ AllIdle
  /\ crashes < MaxCrash
  /\ crashes' = crashes + 1
  /\ \E n \in 1..(Len(PivotOrder(Data, {})) - 1) :
       UploadData' = PivotUpserts(UploadData, PivotOrder(Data, {}),
                                  PivotMap(Data), n)
  /\ UNCHANGED <<RawData, Server, ComputedServerFact, Upload, Data,
                 ComputedUploadFact, run, arrived, lastRun, backlog,
                 startFacts, iterStore>>

Ingest(p) ==
  \/ StartRun(p)
  \/ Window(p)
  \/ WindowDone(p)
  \/ Admit(p)
  \/ SaveServer(p)
  \/ SaveUidFact(p)
  \/ CreateFacts(p)
  \/ UpdateFacts(p)
  \/ SaveUpload(p)
  \/ SaveData(p)
  \/ DeleteAccepted(p)

Next ==
  \/ InsertRaw(RawInputs)
  \/ \E p \in Single : Ingest(p)

Spec == Init /\ [][Next]_vars

NextCrash ==
  \/ Next
  \/ \E p \in Single : Crash(p)

SpecCrash == Init /\ [][NextCrash]_vars

\* Ingestion of well-formed uploads and extraction of server facts, one call
\* at a time.
NextServerFacts ==
  \/ InsertRaw(FactInputs)
  \/ \E p \in Single : Ingest(p)
  \/ ExtractServerFacts(Calls)

SpecServerFacts == Init /\ [][NextServerFacts]_vars

\* Ingestion of well-formed uploads and extraction of upload facts, one call
\* at a time.
NextUploadFacts ==
  \/ InsertRaw(FactInputs)
  \/ \E p \in Single : Ingest(p)
  \/ ExtractUploadFacts(Calls)

SpecUploadFacts == Init /\ [][NextUploadFacts]_vars

\* Ingestion and extraction of server facts, also by calls that are given
\* no extractor.
NextQuery ==
  \/ InsertRaw(FactInputs)
  \/ \E p \in Single : Ingest(p)
  \/ ExtractServerFacts(QueryCalls)

SpecQuery == Init /\ [][NextQuery]_vars

\* Ingestion and both reconciliations, one stage at a time.
NextReconcile ==
  \/ InsertRaw(PipelineInputs)
  \/ \E p \in Single : Ingest(p)
  \/ ExtractServerFacts(PipelineCalls)
  \/ ExtractUploadFacts(PipelineCalls)

SpecReconcile == Init /\ [][NextReconcile]_vars

\* Every operation, in any order, one call at a time; a call may be killed
\* between two of its writes.
NextKilled ==
  \/ InsertRaw(KilledInputs)
  \/ \E p \in Single : Ingest(p)
  \/ \E p \in Single : Crash(p)
  \/ \E c \in KilledCalls : extract_server_facts(c)
  \/ \E c \in KilledCalls : extract_server_facts_killed(c)
  \/ \E c \in KilledCalls : extract_upload_facts(c)
  \/ \E c \in KilledCalls : extract_upload_facts_killed(c)
  \/ pivot_data
  \/ pivot_data_killed

SpecKilled == Init /\ [][NextKilled]_vars

\* Two processes call process_raw_data at any time; their steps interleave.
NextConcurrent ==
  \/ InsertRaw(ConcurrentInputs)
  \/ \E p \in Procs : Ingest(p)

SpecConcurrent == Init /\ [][NextConcurrent]_vars

\* Ingestion and the pivot, one stage at a time.
NextPivot ==
  \/ InsertRaw(FactInputs)
  \/ \E p \in Single : Ingest(p)
  \/ PivotData

SpecPivot == Init /\ [][NextPivot]_vars

\* ----------------------------------------------------------- properties
\* What the claims call an accepted raw upload, in the words of the claims:
\* read from the rows, not from the parser's result.
TextRows(bytes) == Reader(StripNul(bytes))

LastRowWithKey(rows, key) ==
  SetMax({i \in DOMAIN rows : Len(rows[i]) >= 1 /\ rows[i][1] = key})

HasKey(rows, key) == \E i \in DOMAIN rows : Len(rows[i]) >= 1 /\ rows[i][1] = key

SomeRowNotAPair(rows) == \E i \in DOMAIN rows : Len(rows[i]) # 2

UidMissingOrEmpty(rows) ==
  \/ ~HasKey(rows, UID_KEY)
  \/ rows[LastRowWithKey(rows, UID_KEY)][2] = <<>>

IsMysqlTest(rows) ==
  /\ HasKey(rows, USER_INFO_KEY)
  /\ rows[LastRowWithKey(rows, USER_INFO_KEY)][2] = MYSQL_TEST

NotAccepted(bytes) ==
  /\ ~DecodeFails(bytes)
  /\ \/ SomeRowNotAPair(TextRows(bytes))
     \/ UidMissingOrEmpty(TextRows(bytes))
     \/ IsMysqlTest(TextRows(bytes))

Accepted(bytes) == ~DecodeFails(bytes) /\ ~NotAccepted(bytes)

UidOf(bytes) == TextRows(bytes)[LastRowWithKey(TextRows(bytes), UID_KEY)][2]

AcceptedRows(rows) == {r \in rows : Accepted(r.data)}

RECURSIVE RowCount(_)
RowCount(rows) ==
  IF rows = {} THEN 0
  ELSE LET r == CHOOSE x \in rows : TRUE IN
       Len(TextRows(r.data)) + RowCount(rows \ {r})

\* the value of the fact (server, key); <<>> when there is no such row
FactValue(facts, server, key) ==
  IF FactsByKeyServer(facts, key, server) = {} THEN <<>>
  ELSE facts[TheOne(FactsByKeyServer(facts, key, server))].value

NoDuplicateServerFacts ==
  \A i, j \in DOMAIN ComputedServerFact :
    (/\ ComputedServerFact[i].server = ComputedServerFact[j].server
     /\ ComputedServerFact[i].key = ComputedServerFact[j].key) => i = j

\* C1: a call of process_raw_data (no RawData inserted while it runs) ends by
\* returning, and when it has ended no RawData row remains.
C1_BacklogConsumed ==
  (AllIdle /\ lastRun \in {"completed", "raised"})
    => (lastRun = "completed" /\ RawData = {})

\* C2: when a call of process_raw_data was interrupted and a later call ran to
\* completion, the store is what one uninterrupted call leaves: one Upload
\* per accepted raw upload, its Data rows once, one Server per uid, no
\* (server, key) with two fact rows.
C2_ResumedRunEqualsOneRun ==
  (AllIdle /\ lastRun = "completed") =>
     /\ RawData = {}
     /\ Len(Upload) = Cardinality(AcceptedRows(arrived))
     /\ Len(Data) = RowCount(AcceptedRows(arrived))
     /\ Cardinality(Server) =
          Cardinality({UidOf(r.data) : r \in AcceptedRows(arrived)})
     /\ NoDuplicateServerFacts

\* C3: a call of process_raw_data made after a call that completed, with no
\* RawData inserted in between, returns at once and changes no row of any
\* table.
C3_RerunIsNoOp ==
  [][(lastRun \in {"completed", "nothing"} /\ arrived' = arrived)
       => (UNCHANGED <<RawData, store>> /\ lastRun' = "nothing")]_vars

\* C3 witness: process_raw_data was called again after uploads were ingested.
C3_Witness == lastRun = "nothing" /\ Len(Upload) > 0 /\ RawData = {}

\* the uid an Upload carries in its Data rows (the last FEEDBACK_SERVER_UID)
UploadUid(u) ==
  Data[SetMax({i \in DOMAIN Data : Data[i].upload = u /\ Data[i].key = UID_KEY})].value

\* C4: between runs, every uid of an accepted and ingested raw upload has
\* exactly one 'uid' fact, whose Server exists; no two 'uid' facts share a
\* value or a Server; every Upload references the Server of the uid it
\* carries.
C4_OneServerPerUid ==
  /\ \A i, j \in DOMAIN ComputedServerFact :
       (/\ ComputedServerFact[i].key = "uid"
        /\ ComputedServerFact[j].key = "uid"
        /\ \/ ComputedServerFact[i].value = ComputedServerFact[j].value
           \/ ComputedServerFact[i].server = ComputedServerFact[j].server)
         => i = j
  /\ AllIdle =>
       /\ \A r \in AcceptedRows(arrived \ RawData) :
            \E i \in DOMAIN ComputedServerFact :
              /\ ComputedServerFact[i].key = "uid"
              /\ ComputedServerFact[i].value = UidOf(r.data)
              /\ ComputedServerFact[i].server \in Server
       /\ Cardinality(Server) =
            Cardinality({UidOf(r.data) : r \in AcceptedRows(arrived \ RawData)})
       /\ \A u \in DOMAIN Upload :
            FactValue(ComputedServerFact, Upload[u].server, "uid") = UploadUid(u)

\* C4 witness: two uploads of one server, ingested from different windows.
C4_Witness ==
  /\ AllIdle
  /\ Len(Upload) = 2
  /\ Upload[1].server = Upload[2].server
  /\ Upload[1].upload_time + slice_24_hours <= Upload[2].upload_time
  /\ Cardinality(Server) = 1

\* C5: the iteration of a raw upload that is not accepted deletes the raw
\* upload, changes no row of the store and goes on with the next raw upload.
C5_RejectedLeavesNoTrace ==
  [][\A p \in Procs :
       (/\ run[p].pc = "iter"
        /\ run[p].iter # <<>>
        /\ NotAccepted(Head(run[p].iter).data))
       => (/\ RawData' = RawData \ {Head(run[p].iter)}
           /\ UNCHANGED store
           /\ run'[p].pc = "iter"
           /\ run'[p].iter = Tail(run[p].iter))]_vars

\* C5 witness: a raw upload whose offending row follows a well-formed row was
\* taken from the backlog and left the store empty.
C5_Witness ==
  \E r \in arrived \ RawData :
    /\ NotAccepted(r.data)
    /\ Len(TextRows(r.data)) >= 2
    /\ Len(TextRows(r.data)[1]) = 2
    /\ SomeRowNotAPair(TextRows(r.data))
    /\ store = NoStore

\* the Server the 'uid' fact of uid references
ServerOfUid(facts, uid) ==
  facts[TheOne({i \in DOMAIN facts :
                  facts[i].key = "uid" /\ facts[i].value = uid})].server

UidKnown(facts, uid) ==
  \E i \in DOMAIN facts : facts[i].key = "uid" /\ facts[i].value = uid

\* the upload times of the accepted raw uploads of uid in rows
TimesOfUid(rows, uid) ==
  {r.upload_time : r \in {x \in AcceptedRows(rows) : UidOf(x.data) = uid}}

\* C6 as stated: when process_raw_data has completed, every server with
\* accepted raw uploads in the backlog of that call has first_seen = the
\* earliest and last_seen = the latest of their upload times.
C6_FirstLastSeen ==
  (AllIdle /\ lastRun = "completed") =>
    \A r \in AcceptedRows(backlog) :
      LET uid == UidOf(r.data)
          server == ServerOfUid(ComputedServerFact, uid)
      IN /\ FactValue(ComputedServerFact, server, "first_seen")
              = TimeValue(SetMin(TimesOfUid(backlog, uid)))
         /\ FactValue(ComputedServerFact, server, "last_seen")
              = TimeValue(SetMax(TimesOfUid(backlog, uid)))

\* C6 amended: when process_raw_data has completed, every server with
\* accepted raw uploads in the backlog of that call has last_seen = the
\* latest of their upload times; its first_seen is the earliest of them when
\* the server had no first_seen fact at the start of the call, and the value
\* it had at the start otherwise.
C6_FirstLastSeenAmended ==
  (AllIdle /\ lastRun = "completed") =>
    \A r \in AcceptedRows(backlog) :
      LET uid == UidOf(r.data)
          server == ServerOfUid(ComputedServerFact, uid)
      IN /\ FactValue(ComputedServerFact, server, "first_seen")
              = IF FactValue(startFacts, server, "first_seen") = <<>>
                THEN TimeValue(SetMin(TimesOfUid(backlog, uid)))
                ELSE FactValue(startFacts, server, "first_seen")
         /\ FactValue(ComputedServerFact, server, "last_seen")
              = TimeValue(SetMax(TimesOfUid(backlog, uid)))

\* C6 witness: a call completed whose backlog held two accepted uploads of a
\* new server in different 24-hour windows.
C6_Witness ==
  /\ AllIdle
  /\ lastRun = "completed"
  /\ startFacts = <<>>
  /\ \E r1, r2 \in AcceptedRows(backlog) :
       /\ UidOf(r1.data) = UidOf(r2.data)
       /\ r1.upload_time + slice_24_hours <= r2.upload_time
       /\ FactValue(ComputedServerFact,
                    ServerOfUid(ComputedServerFact, UidOf(r1.data)),
                    "first_seen") = TimeValue(r1.upload_time)

\* the (key, value) rows of a blob, in the order of the blob
PairsOf(bytes, upload) ==
  [i \in 1..Len(TextRows(bytes)) |->
     [upload |-> upload, key |-> TextRows(bytes)[i][1],
      value |-> TextRows(bytes)[i][2]]]

\* C7: the iteration of an accepted raw upload (time T, country C, n rows)
\* whose uid has no 'uid' fact ends with, added to the store of its start:
\* one Server, the facts uid, country_code = C, first_seen = T and
\* last_seen = T of that Server, one Upload (T, that Server), the n Data rows
\* of that Upload with the keys and values of the rows; nothing else is
\* changed, and its last step deletes the raw upload.
C7_NewServerUpload ==
  [][\A p \in Procs :
       (/\ run[p].pc = "delete"
        /\ ~UidKnown(iterStore[2], UidOf(run[p].raw_upload.data)))
       =>
       LET r == run[p].raw_upload
           n == Len(iterStore[2])
       IN
       /\ RawData' = RawData \ {r}
       /\ r \in RawData
       /\ \E s \in Server' \ iterStore[1] :
            /\ Server' = iterStore[1] \cup {s}
            /\ Len(ComputedServerFact') = n + 4
            /\ SubSeq(ComputedServerFact', 1, n) = iterStore[2]
            /\ {ComputedServerFact'[i] : i \in (n + 1)..(n + 4)} =
                 { [server |-> s, key |-> "uid", value |-> UidOf(r.data)],
                   [server |-> s, key |-> "country_code", value |-> <<r.country>>],
                   [server |-> s, key |-> "first_seen",
                    value |-> TimeValue(r.upload_time)],
                   [server |-> s, key |-> "last_seen",
                    value |-> TimeValue(r.upload_time)] }
            /\ Upload' = Append(iterStore[3],
                                [upload_time |-> r.upload_time, server |-> s])
            /\ Data' = iterStore[4] \o PairsOf(r.data, Len(Upload'))
            /\ ComputedUploadFact' = iterStore[5]]_vars

\* C7 witness: the only upload so far, of a new server, with a repeated key,
\* has been ingested.
C7_Witness ==
  /\ AllIdle
  /\ lastRun = "completed"
  /\ RawData = {}
  /\ \E r \in arrived : arrived = {r} /\ r.data = UploadU2
  /\ Len(Upload) = 1
  /\ Len(Data) = 5
  /\ Data[5].value = <<"Minix">>
  /\ Len(ComputedServerFact) = 4

\* C8: between two calls, also after an interrupted one, every Server has a
\* 'uid' fact.
C8_ServerHasUidFact ==
  AllIdle =>
    \A s \in Server : FactsByKeyServer(ComputedServerFact, "uid", s) # {}

\* the ids of the rows of (scope, key) in a fact table
RowsOf(table, field, scope, key) ==
  {i \in DOMAIN table : table[i][field] = scope /\ table[i].key = key}

\* the (server, key) pairs of a combined output of server extractors
PairsIn(facts) ==
  UNION {{<<s, k>> : k \in DOMAIN facts[s]} : s \in DOMAIN facts}

ServerFactsOf(c) ==
  ServerFacts(Upload, Data, c.start_date, c.end_date, c.data_extractors,
              c.end_inclusive)

\* ComputedServerFact after the call c of extract_server_facts
AfterServerCall(c) ==
  ReconcileKeys(ComputedServerFact, KeyOrder(DOMAIN FactsByKey(ServerFactsOf(c))),
                FactsByKey(ServerFactsOf(c)))

\* C9: no (server, key) ever has two ComputedServerFact rows, and a call of
\* extract_server_facts made after sequential runs of process_raw_data and
\* extract_server_facts leaves, for every (server, key) of the combined
\* extractor output, exactly one row, holding the computed value; the rows
\* that existed keep their place (they are updated, not replaced) and one row
\* is added for each (server, key) that had none.
C9_ServerFactsReconciled ==
  /\ NoDuplicateServerFacts
  /\ (AllIdle /\ RawData = {}) =>
       \A c \in Calls :
         LET facts == ServerFactsOf(c)
             after == AfterServerCall(c)
             pairs == UNION {{<<s, k>> : k \in DOMAIN facts[s]} : s \in DOMAIN facts}
         IN /\ \A sk \in pairs :
                 /\ Cardinality(RowsOf(after, "server", sk[1], sk[2])) = 1
                 /\ after[TheOne(RowsOf(after, "server", sk[1], sk[2]))].value
                      = facts[sk[1]][sk[2]]
            /\ \A i \in DOMAIN ComputedServerFact :
                 /\ after[i].server = ComputedServerFact[i].server
                 /\ after[i].key = ComputedServerFact[i].key
            /\ Len(after) = Len(ComputedServerFact) + Cardinality(
                 {sk \in pairs :
                    RowsOf(ComputedServerFact, "server", sk[1], sk[2]) = {}})

\* C9 witness: extract_server_facts has stored a fact, and a call can be made
\* whose output has another value for that fact and a fact that has no row.
C9_Witness ==
  /\ AllIdle
  /\ RawData = {}
  /\ \E c \in Calls :
       LET facts == ServerFactsOf(c) IN
       /\ \E s \in DOMAIN facts :
            /\ "os_name" \in DOMAIN facts[s]
            /\ RowsOf(ComputedServerFact, "server", s, "os_name") # {}
            /\ FactValue(ComputedServerFact, s, "os_name") # facts[s]["os_name"]
       /\ \E s \in DOMAIN facts : \E k \in DOMAIN facts[s] :
            RowsOf(ComputedServerFact, "server", s, k) = {}

UploadFactsOf(c) ==
  UploadFacts(Upload, Data, c.start_date, c.end_date, c.data_extractors,
              c.end_inclusive)

NoDuplicateUploadFacts ==
  \A i, j \in DOMAIN ComputedUploadFact :
    (/\ ComputedUploadFact[i].upload = ComputedUploadFact[j].upload
     /\ ComputedUploadFact[i].key = ComputedUploadFact[j].key) => i = j

\* C10: no (upload, key) ever has two ComputedUploadFact rows, and a call of
\* extract_upload_facts made after sequential runs leaves, for every
\* (upload, key) of the combined extractor output, exactly one row, holding
\* the computed value.
C10_UploadFactsReconciled ==
  /\ NoDuplicateUploadFacts
  /\ (AllIdle /\ RawData = {}) =>
       \A c \in Calls :
         LET facts == UploadFactsOf(c)
             after == ReconcileUploadFacts(ComputedUploadFact, facts)
         IN \A s \in DOMAIN facts : \A u \in DOMAIN facts[s] :
              \A k \in DOMAIN facts[s][u] :
                /\ Cardinality(RowsOf(after, "upload", u, k)) = 1
                /\ after[TheOne(RowsOf(after, "upload", u, k))].value
                     = facts[s][u][k]

\* C10 witness: extract_upload_facts has stored facts of two uploads, and a
\* call can be made whose output has another value for one of them and a fact
\* that has no row.
C10_Witness ==
  /\ AllIdle
  /\ RawData = {}
  /\ \E i, j \in DOMAIN ComputedUploadFact :
       ComputedUploadFact[i].upload # ComputedUploadFact[j].upload
  /\ \E c \in Calls :
       LET facts == UploadFactsOf(c) IN
       /\ \E s \in DOMAIN facts : \E u \in DOMAIN facts[s] :
            \E k \in DOMAIN facts[s][u] :
              /\ RowsOf(ComputedUploadFact, "upload", u, k) # {}
              /\ ComputedUploadFact[TheOne(RowsOf(ComputedUploadFact, "upload", u, k))].value
                   # facts[s][u][k]
       /\ \E s \in DOMAIN facts : \E u \in DOMAIN facts[s] :
            \E k \in DOMAIN facts[s][u] :
              RowsOf(ComputedUploadFact, "upload", u, k) = {}

\* C11: a second reconciliation with unchanged Data and unchanged extractors
\* writes nothing: it creates no fact row and updates no fact row.
C11_SecondRunWritesNothing ==
  (AllIdle /\ RawData = {}) =>
    \A c \in PipelineCalls :
      LET facts_by_key == FactsByKey(ServerFactsOf(c))
          keys == KeyOrder(DOMAIN facts_by_key)
          first == ReconcileKeys(ComputedServerFact, keys, facts_by_key)
          second == ServerRunWrites(first, keys, facts_by_key)
          ufacts == UploadFactsOf(c)
          ufirst == ReconcileUploadFacts(ComputedUploadFact, ufacts)
          usecond == UploadWrites(ufirst, ufacts)
      IN /\ \A j \in DOMAIN second :
              /\ second[j].facts_create = <<>>
              /\ second[j].facts_update = <<>>
         /\ usecond.facts_create = <<>>
         /\ usecond.facts_update = <<>>

\* C11 amended: a second reconciliation with unchanged Data and unchanged
\* extractors creates no fact row; it updates every row of the output again,
\* each with the value the row already holds, so both tables stay as the
\* first reconciliation left them.
C11_SecondRunChangesNothing ==
  (AllIdle /\ RawData = {}) =>
    \A c \in PipelineCalls :
      LET sfacts == ServerFactsOf(c)
          facts_by_key == FactsByKey(sfacts)
          keys == KeyOrder(DOMAIN facts_by_key)
          first == ReconcileKeys(ComputedServerFact, keys, facts_by_key)
          second == ServerRunWrites(first, keys, facts_by_key)
          ufacts == UploadFactsOf(c)
          ufirst == ReconcileUploadFacts(ComputedUploadFact, ufacts)
          usecond == UploadWrites(ufirst, ufacts)
      IN /\ \A j \in DOMAIN second :
              /\ second[j].facts_create = <<>>
              /\ \A n \in DOMAIN second[j].facts_update :
                   first[second[j].facts_update[n].id].value
                     = second[j].facts_update[n].value
         /\ Cardinality(UNION {{second[j].facts_update[n].id :
                                  n \in DOMAIN second[j].facts_update} :
                                j \in DOMAIN second})
              = Cardinality(PairsIn(sfacts))
         /\ ReconcileKeys(first, keys, facts_by_key) = first
         /\ usecond.facts_create = <<>>
         /\ \A n \in DOMAIN usecond.facts_update :
              ufirst[usecond.facts_update[n].id].value
                = usecond.facts_update[n].value
         /\ Len(usecond.facts_update) = Len(UploadFactTriples(ufacts))
         /\ ReconcileUploadFacts(ufirst, ufacts) = ufirst

\* C11 witness: a call can be made that creates a server fact and an upload
\* fact and changes the value of others, so that the second call finds rows
\* of both kinds.
C11_Witness ==
  /\ AllIdle
  /\ RawData = {}
  /\ \E c \in PipelineCalls :
       LET first == AfterServerCall(c)
           ufacts == UploadFactsOf(c)
           ufirst == ReconcileUploadFacts(ComputedUploadFact, ufacts)
       IN /\ Len(first) > Len(ComputedServerFact)
          /\ \E i \in DOMAIN ComputedServerFact :
               first[i] # ComputedServerFact[i]
          /\ Len(ufirst) > Len(ComputedUploadFact)
          /\ \E i \in DOMAIN ComputedUploadFact :
               ufirst[i] # ComputedUploadFact[i]
          /\ Len(UploadWrites(ufirst, ufacts).facts_update) > 1

\* the grouping the call c gets from get_upload_data_for_data_extractors
ServersOf(c) ==
  get_upload_data_for_data_extractors(Upload, Data, c.start_date, c.end_date,
                                      c.data_extractors, c.end_inclusive)

\* the upload of a Data row is in the time range of the call c
InRange(c, i) ==
  /\ Upload[Data[i].upload].upload_time >= c.start_date
  /\ IF c.end_inclusive
     THEN Upload[Data[i].upload].upload_time <= c.end_date
     ELSE Upload[Data[i].upload].upload_time < c.end_date

\* the key of a Data row equals, case-insensitively, a required key of c
KeyRequired(c, i) ==
  \E n \in DOMAIN c.data_extractors : \E k \in c.data_extractors[n].required :
    Lower(k) = Lower(Data[i].key)

\* the values of the Data rows of upload u that c requires, with lower-case
\* key k, in the order of the rows
RequiredValues(c, u, k) ==
  LET ids == SelectSeq([i \in DOMAIN Data |-> i],
                       LAMBDA i : /\ Data[i].upload = u
                                  /\ Lower(Data[i].key) = k
                                  /\ InRange(c, i)
                                  /\ KeyRequired(c, i))
  IN [j \in DOMAIN ids |-> Data[ids[j]].value]

\* C12: for every list of extractors, also one that requires no key, the
\* grouping holds at result[server][upload][lower-case key] one value per
\* Data row of the upload whose key is required (case-insensitively) and
\* whose upload is in the time range, and nothing else.
C12_OnlyRequiredRows ==
  AllIdle =>
    \A c \in QueryCalls :
      LET servers == ServersOf(c) IN
      /\ \A s \in DOMAIN servers : \A u \in DOMAIN servers[s] :
           /\ Upload[u].server = s
           /\ \A k \in DOMAIN servers[s][u] :
                servers[s][u][k] = RequiredValues(c, u, k)
      /\ \A i \in DOMAIN Data :
           (InRange(c, i) /\ KeyRequired(c, i)) =>
             LET u == Data[i].upload IN
             /\ Upload[u].server \in DOMAIN servers
             /\ u \in DOMAIN servers[Upload[u].server]
             /\ Lower(Data[i].key) \in DOMAIN servers[Upload[u].server][u]

\* the ids of the Data rows of an upload
DataOf(u) == {i \in DOMAIN Data : Data[i].upload = u}

\* the ids of the documents of an upload in a table of documents
DocsOf(table, u) == {i \in DOMAIN table : table[i].upload = u}

\* C13: after pivot_data every Upload that has a Data row has exactly one
\* UploadData document; the document has exactly the distinct keys of the
\* upload's Data rows, each with the value of the last row that has the key.
\* Running pivot_data again replaces the documents: none is added, and with
\* unchanged Data none changes.  No upload ever has two documents.
C13_OneDocumentPerUpload ==
  /\ \A i, j \in DOMAIN UploadData :
       UploadData[i].upload = UploadData[j].upload => i = j
  /\ (AllIdle /\ RawData = {}) =>
       LET after == Pivoted(UploadData, Data) IN
       /\ \A u \in DOMAIN Upload :
            DataOf(u) # {} =>
              /\ Cardinality(DocsOf(after, u)) = 1
              /\ LET doc == after[TheOne(DocsOf(after, u))].upload_json IN
                 /\ DOMAIN doc = {Data[i].key : i \in DataOf(u)}
                 /\ \A k \in DOMAIN doc :
                      doc[k] = Data[SetMax({i \in DataOf(u) :
                                              Data[i].key = k})].value
       /\ \A i \in DOMAIN UploadData : after[i].upload = UploadData[i].upload
       /\ Len(after) = Len(UploadData) + Cardinality(
            {u \in DOMAIN Upload : DataOf(u) # {} /\ DocsOf(UploadData, u) = {}})
       /\ Pivoted(after, Data) = after

\* C13 witness: pivot_data has stored the document of an upload whose key OS
\* repeats, and another upload has come since, so that the next pivot_data
\* replaces one document and adds one.
C13_Witness ==
  /\ AllIdle
  /\ RawData = {}
  /\ Len(UploadData) = 1
  /\ DOMAIN UploadData[1].upload_json = {UID_KEY, <<"OS">>, <<"os">>}
  /\ UploadData[1].upload_json[<<"OS">>] = <<"Minix">>
  /\ Len(Upload) = 2
  /\ Len(Pivoted(UploadData, Data)) = 2

\* C14: whenever no call is under way, also after a call that was killed,
\* every Upload row has at least one Data row that references it.
C14_UploadHasData ==
  AllIdle => \A u \in DOMAIN Upload : DataOf(u) # {}

\* C15: the windows are [window_start, window_start + 24h): a raw upload
\* leaves the backlog only in the window with
\* window_start <= upload_time < window_start + 24h, a window that ends
\* leaves no pending raw upload of that range behind, and the next window
\* starts later.
C15_WindowsClosedOpen ==
  [][/\ \A r \in RawData \ RawData' :
          \E p \in Procs :
            /\ run[p].pc # "idle"
            /\ run[p].start_date <= r.upload_time
            /\ r.upload_time < run[p].start_date + slice_24_hours
     /\ \A p \in Procs :
          (run[p].pc = "iter" /\ run'[p].pc = "loop") =>
            /\ \A r \in RawData :
                 ~ /\ run[p].start_date <= r.upload_time
                   /\ r.upload_time < run[p].start_date + slice_24_hours
            /\ run'[p].start_date > run[p].start_date]_vars

\* C15 amended: the windows are (window_start, window_start + 24h]: a raw
\* upload leaves the backlog only in the window with
\* window_start < upload_time <= window_start + 24h, so one whose
\* upload_time equals window_start + 24h is processed by this window and
\* not by the next; a window that ends leaves no pending raw upload of that
\* range behind, and the next window starts later.
C15_WindowsOpenClosed ==
  [][/\ \A r \in RawData \ RawData' :
          \E p \in Procs :
            /\ run[p].pc # "idle"
            /\ run[p].start_date < r.upload_time
            /\ r.upload_time <= run[p].start_date + slice_24_hours
     /\ \A p \in Procs :
          (run[p].pc = "iter" /\ run'[p].pc = "loop") =>
            /\ \A r \in RawData :
                 ~ /\ run[p].start_date < r.upload_time
                   /\ r.upload_time <= run[p].start_date + slice_24_hours
            /\ run'[p].start_date > run[p].start_date]_vars

\* C15 witness: an accepted raw upload whose upload_time is
\* window_start + 24h is about to be deleted, in the first window of a run
\* that processed an older upload before.
C15_Witness ==
  \E p \in Procs :
    /\ run[p].pc = "delete"
    /\ run[p].raw_upload.upload_time = run[p].start_date + slice_24_hours
    /\ Len(Upload) = 2

\* C16: no step of the ingestion changes a first_seen row that exists, and
\* the iteration of a raw upload whose server had its first_seen row when the
\* iteration began still sets last_seen and country_code to the time and the
\* country of that upload, also when the upload is older than first_seen.
C16_FirstSeenWriteOnce ==
  [][/\ \A i \in DOMAIN ComputedServerFact :
          ComputedServerFact[i].key = "first_seen" =>
            ComputedServerFact'[i] = ComputedServerFact[i]
     /\ \A p \in Procs :
          (/\ run[p].pc = "update"
           /\ run'[p].pc = "upload"
           /\ FactsByKeyServer(iterStore[2], "first_seen", run[p].server) # {}) =>
            /\ FactValue(ComputedServerFact', run[p].server, "last_seen")
                 = <<ToString(run[p].raw_upload.upload_time)>>
            /\ FactValue(ComputedServerFact', run[p].server, "country_code")
                 = <<run[p].raw_upload.country>>]_vars

\* C16 witness: a server first seen at 86410 in 'US' was sent, in a later
\* run, an upload of time 10 from 'DE': first_seen is still 86410, last_seen
\* is 10 and the country is 'DE'.
C16_Witness ==
  /\ AllIdle
  /\ \E s \in Server :
       /\ FactsByKeyServer(ComputedServerFact, "first_seen", s) # {}
       /\ FactValue(ComputedServerFact, s, "first_seen") = <<"86410">>
       /\ FactValue(ComputedServerFact, s, "last_seen") = <<"10">>
       /\ FactValue(ComputedServerFact, s, "country_code") = <<"DE">>
       /\ Cardinality({u \in DOMAIN Upload : Upload[u].server = s}) = 2

\* C17: in every state reached by runs of process_raw_data,
\* extract_server_facts, extract_upload_facts and pivot_data, killed or not,
\* every ComputedServerFact row references a Server row that exists; so the
\* lookup of the Server of a 'uid' fact never fails.
C17_FactsHaveServer ==
  /\ \A i \in DOMAIN ComputedServerFact : ComputedServerFact[i].server \in Server
  /\ \A p \in Procs :
       (run[p].pc = "iter" /\ run[p].iter # <<>>) =>
         LET raw_upload == Head(run[p].iter) IN
         \A i \in DOMAIN ComputedServerFact :
           (/\ ~DecodeFails(raw_upload.data)
            /\ ~Rejected(Parse(raw_upload.data))
            /\ ComputedServerFact[i].key = "uid"
            /\ ComputedServerFact[i].value = Parse(raw_upload.data).data[UID_KEY])
             => ComputedServerFact[i].server \in Server

\* C17 witness: a call was killed, two servers exist, both reconciliations
\* and the pivot have written rows, and a raw upload of a known server is
\* the next of a window.
C17_Witness ==
  /\ crashes > 0
  /\ Cardinality(Server) = 2
  /\ \E i \in DOMAIN ComputedServerFact : ComputedServerFact[i].key = "os_name"
  /\ ComputedUploadFact # <<>>
  /\ UploadData # <<>>
  /\ \E p \in Procs :
       /\ run[p].pc = "iter"
       /\ run[p].iter # <<>>
       /\ FactsByKeyValue(ComputedServerFact, "uid",
                          Parse(Head(run[p].iter).data).data[UID_KEY]) # {}

\* the grouping of the call c holds values of the upload u
Loaded(c, u) ==
  /\ Upload[u].server \in DOMAIN ServersOf(c)
  /\ u \in DOMAIN ServersOf(c)[Upload[u].server]

\* C18: the Data of an Upload with upload_time t (that has a row with a
\* required key) is loaded iff start_date <= t < end_date when end_inclusive
\* is false, and iff start_date <= t <= end_date when it is true.
C18_RangeClosedAtStart ==
  AllIdle =>
    \A c \in Calls : \A u \in DOMAIN Upload :
      (\E i \in DataOf(u) : KeyRequired(c, i)) =>
        (Loaded(c, u) <=>
           /\ c.start_date <= Upload[u].upload_time
           /\ \/ Upload[u].upload_time < c.end_date
              \/ c.end_inclusive /\ Upload[u].upload_time = c.end_date)

\* C18 witness: uploads exist at the start date and at the end date of a
\* call, one other call loads the upload at its start date, and one does
\* not load the upload at its end date.
C18_Witness ==
  /\ AllIdle
  /\ \E c \in Calls : \E u \in DOMAIN Upload :
       /\ Upload[u].upload_time = c.start_date
       /\ c.start_date < c.end_date
       /\ Loaded(c, u)
  /\ \E c \in Calls : \E u \in DOMAIN Upload :
       /\ Upload[u].upload_time = c.end_date
       /\ c.start_date < c.end_date
       /\ ~c.end_inclusive
       /\ DataOf(u) # {}
       /\ ~Loaded(c, u)
  /\ \E c \in Calls : \E u \in DOMAIN Upload :
       /\ Upload[u].upload_time = c.end_date
       /\ c.start_date < c.end_date
       /\ c.end_inclusive
       /\ Loaded(c, u)

\* C19: when the iterations of two concurrent runs for raw uploads with the
\* same, new FEEDBACK_SERVER_UID interleave, at most one Server and at most
\* one 'uid' fact with that value are created.
C19_OneServerWhenConcurrent ==
  \A r \in AcceptedRows(arrived) :
    /\ Cardinality(FactsByKeyValue(ComputedServerFact, "uid", UidOf(r.data))) <= 1
    /\ Cardinality(Server)
         <= Cardinality({UidOf(x.data) : x \in AcceptedRows(arrived)})

\* ComputedUploadFact after the call c of extract_upload_facts
AfterUploadCall(c) == ReconcileUploadFacts(ComputedUploadFact, UploadFactsOf(c))

\* the (upload, key) pairs of a combined output of upload extractors
UploadPairsIn(facts) ==
  UNION {UNION {{<<u, k>> : k \in DOMAIN facts[s][u]} : u \in DOMAIN facts[s]} :
           s \in DOMAIN facts}

\* the keys the ingestion writes
IngestionKeys == {"uid", "country_code", "first_seen", "last_seen"}

\* C20: a call of extract_server_facts or extract_upload_facts deletes no
\* fact row, leaves every row whose (scope, key) is not in the combined
\* extractor output as it is (rows of a key an earlier call computed, and
\* the ingestion's 'uid', 'country_code', 'first_seen', 'last_seen' rows),
\* changes of the other rows nothing but the value, and adds rows only for
\* pairs of the output.
C20_ReconciliationFrame ==
  (AllIdle /\ RawData = {}) =>
    \A c \in PipelineCalls :
      LET facts == ServerFactsOf(c)
          pairs == PairsIn(facts)
          after == ReconcileKeys(ComputedServerFact,
                                 KeyOrder(DOMAIN FactsByKey(facts)),
                                 FactsByKey(facts))
          ufacts == UploadFactsOf(c)
          upairs == UploadPairsIn(ufacts)
          uafter == ReconcileUploadFacts(ComputedUploadFact, ufacts)
      IN /\ Len(after) >= Len(ComputedServerFact)
         /\ \A i \in DOMAIN ComputedServerFact :
              /\ after[i].server = ComputedServerFact[i].server
              /\ after[i].key = ComputedServerFact[i].key
              /\ <<after[i].server, after[i].key>> \notin pairs =>
                   after[i].value = ComputedServerFact[i].value
              /\ ComputedServerFact[i].key \in IngestionKeys =>
                   after[i] = ComputedServerFact[i]
         /\ \A i \in DOMAIN after \ DOMAIN ComputedServerFact :
              <<after[i].server, after[i].key>> \in pairs
         /\ Len(uafter) >= Len(ComputedUploadFact)
         /\ \A i \in DOMAIN ComputedUploadFact :
              /\ uafter[i].upload = ComputedUploadFact[i].upload
              /\ uafter[i].key = ComputedUploadFact[i].key
              /\ <<uafter[i].upload, uafter[i].key>> \notin upairs =>
                   uafter[i].value = ComputedUploadFact[i].value
         /\ \A i \in DOMAIN uafter \ DOMAIN ComputedUploadFact :
              <<uafter[i].upload, uafter[i].key>> \in upairs

\* C20 witness: both tables hold an os_seen row an earlier call computed, and
\* a call can be made whose output has no os_seen but another os_name for
\* the same server and the same upload.
C20_Witness ==
  /\ AllIdle
  /\ RawData = {}
  /\ \E c \in PipelineCalls :
       LET facts == ServerFactsOf(c)
           ufacts == UploadFactsOf(c)
       IN /\ \E i, j \in DOMAIN ComputedServerFact :
               /\ ComputedServerFact[i].key = "os_seen"
               /\ ComputedServerFact[j].key = "os_name"
               /\ ComputedServerFact[j].server = ComputedServerFact[i].server
               /\ ComputedServerFact[i].server \in DOMAIN facts
               /\ DOMAIN facts[ComputedServerFact[i].server] = {"os_name"}
               /\ facts[ComputedServerFact[i].server]["os_name"]
                    # ComputedServerFact[j].value
          /\ \E i, j \in DOMAIN ComputedUploadFact :
               /\ ComputedUploadFact[i].key = "os_seen"
               /\ ComputedUploadFact[j].key = "os_name"
               /\ ComputedUploadFact[j].upload = ComputedUploadFact[i].upload
               /\ <<ComputedUploadFact[i].upload, "os_seen">>
                    \notin UploadPairsIn(ufacts)
               /\ <<ComputedUploadFact[j].upload, "os_name">>
                    \in UploadPairsIn(ufacts)
               /\ AfterUploadCall(c)[j].value # ComputedUploadFact[j].value

====
